---- MODULE Spec2Model ----
(***************************************************************************)
(* The ARP core of embox (net/arp.c, kept as src/unnamed/part_001):        *)
(* arp_rcv / arp_process / arp_hnd_request / arp_hnd_reply on the inbound  *)
(* side, arp_resolve on the outbound side, arp_build and arp_xmit shared.  *)
(* Every collaborator call (skb_free, dev_xmit_skb, neighbour_add,         *)
(* arp_queue_process, rt_fib_route_ip, neighbour_get_hardware_address,     *)
(* create_hdr) is one step of the execution context that makes it.         *)
(***************************************************************************)
EXTENDS Integers, Sequences, FiniteSets, TLC

\* ------------------------------------------------------------ bounds
\* sender identities an inbound packet may carry (1..NSeeds)
NSeeds == 2
\* operation codes on the wire range over 1..MaxOper
MaxOper == 3
\* a received buffer is 1 byte short of, equal to, or up to MaxPad bytes
\* longer than the size its header declares
MaxPad == 1

\* ------------------------------------------------- program constants
ETH_ALEN == 6
ETH_HEADER_SIZE == 14
ARPG_FIXED_SIZE == 8
IN_ADDR_LEN == 4
\* capacity of the address temporaries of arp_hnd_request
MAX_ADDR_LEN == 32

ETH_P_IP == 2048
ETH_P_ARP == 2054
ARPG_HRD_ETHERNET == 1
ARP_OPER_REQUEST == 1
ARP_OPER_REPLY == 2
ENOERR == 0
EINVAL == 22
ENOMEM == 12
ENETUNREACH == 101
EINPROGRESS == 115

Ctx == {1, 2}

\* ------------------------------------------------------------ state
VARIABLES
    bigEndian,   \* byte order of the build
    dev,         \* the receiving / sending net_device with its in_device
    op,          \* op[c]: entry point context c runs ("rcv", "resolve", "send")
    pc,          \* pc[c]: position of context c
    skb,         \* skb[c]: the packet buffer context c was given
    arps,        \* arps[c]: struct arpg_stuff, the offsets of the four fields
    tmp,         \* tmp[c]: src_paddr, dst_haddr, dst_paddr of arp_hnd_request
    bargs,       \* bargs[c]: the arguments of the arp_build call in progress
    daddr,       \* daddr[c]: arp_resolve's routed address
    ret,         \* ret[c]: the value returned (or held in `ret`)
    freed,       \* freed[c]: number of skb_free calls on skb[c]
    calls,       \* calls[c]: collaborator calls made so far, in order
    reads,       \* reads[c]: parts of the ARP header read so far
    skb0,        \* skb0[c]: the buffer as it arrived
    txq,         \* buffers handed to dev_xmit_skb, in order
    cache,       \* neighbour cache: set of [paddr, haddr, dev]
    drained      \* protocol addresses arp_queue_process was run for

vars == <<bigEndian, dev, op, pc, skb, arps, tmp, bargs, daddr, ret, freed,
          calls, reads, skb0, txq, cache, drained>>

\* ------------------------------------------------------ byte helpers
\* htons / ntohs: a byte swap on a little-endian build, nothing on a
\* big-endian one
Swap16(x) == (x % 256) * 256 + (x \div 256)

htons(x) == IF bigEndian THEN x ELSE Swap16(x)

ntohs(x) == IF bigEndian THEN x ELSE Swap16(x)

\* memset(p, b, n)
Fill(n, b) == [i \in 1..n |-> b]

\* memcpy(dst + off, src, n) into the byte sequence dst; bytes past the end
\* of dst are not stored
CopyAt(dst, off, src, n) ==
    [i \in 1..Len(dst) |->
        IF i > off /\ i <= off + n /\ i - off <= Len(src)
        THEN src[i - off] ELSE dst[i]]

\* the n bytes at offset off, as far as the sequence holds them
Bytes(s, off, n) ==
    LET hi == IF off + n <= Len(s) THEN off + n ELSE Len(s)
    IN  IF hi <= off THEN <<>> ELSE SubSeq(s, off + 1, hi)

\* a byte sequence cut or zero-padded to n bytes
Resize(s, n) ==
    IF n <= 0 THEN <<>>
    ELSE [i \in 1..n |-> IF i <= Len(s) THEN s[i] ELSE 0]

\* ------------------------------------------------ address-field layout
\* ARPG_CALC_HDR_SZ(haddr_len, paddr_len)
ARPG_CALC_HDR_SZ(hl, pl) == ARPG_FIXED_SIZE + 2 * (hl + pl)

\* ARPG_HEADER_SIZE(arph)
ARPG_HEADER_SIZE(h) == ARPG_CALC_HDR_SZ(h.ha_len, h.pa_len)

\* arpg_make_stuff: offsets of sha, spa, tha, tpa in the variable portion
arpg_make_stuff(h) ==
    [sha |-> 0,
     spa |-> h.ha_len,
     tha |-> h.ha_len + h.pa_len,
     tpa |-> 2 * h.ha_len + h.pa_len]

\* the four fields of a header, read through its own declared lengths
Sha(h) == Bytes(h.data, arpg_make_stuff(h).sha, h.ha_len)

Spa(h) == Bytes(h.data, arpg_make_stuff(h).spa, h.pa_len)

Tha(h) == Bytes(h.data, arpg_make_stuff(h).tha, h.ha_len)

Tpa(h) == Bytes(h.data, arpg_make_stuff(h).tpa, h.pa_len)

\* ------------------------------------------------------------ inputs
NULL == <<-1>>

PktTypes == {"PACKET_HOST", "PACKET_BROADCAST", "PACKET_MULTICAST",
             "PACKET_OTHERHOST"}

\* the address of in_dev->ifa_address and of the device, as bytes in memory
OwnIp == <<10, 0, 0, 1>>

OwnMac == <<2, 0, 0, 0, 0, 1>>

BroadcastIp == Fill(IN_ADDR_LEN, 255)

\* hardware address of sender s, n bytes long
HwAddr(n, s) == [i \in 1..n |-> 16 * s + i]

\* protocol address number s, n bytes long; number 0 is the device's own
PrAddr(n, s) ==
    [i \in 1..n |-> IF i > IN_ADDR_LEN THEN 0
                    ELSE IF i = IN_ADDR_LEN THEN OwnIp[i] + s ELSE OwnIp[i]]

HaLens == {0, ETH_ALEN, ETH_ALEN + 1}

PaLens == {0, IN_ADDR_LEN, IN_ADDR_LEN + 1}

Devices ==
    [name : {"eth0"}, type : {ARPG_HRD_ETHERNET}, addr_len : {0, ETH_ALEN},
     dev_addr : {OwnMac}, noarp : BOOLEAN, ifa_address : {OwnIp}]

\* the device's own hardware address: the first addr_len bytes of dev_addr
DevHaddr(d) == Bytes(d.dev_addr, 0, d.addr_len)

NoSkb ==
    [len |-> 0, pkt_type |-> "none", h_dest |-> <<>>, h_source |-> <<>>,
     protocol |-> 0, ha_space |-> 0, pa_space |-> 0, ha_len |-> 0,
     pa_len |-> 0, oper |-> 0, data |-> <<>>, ip_daddr |-> <<>>]

\* an ARP packet as a peer put it on the wire and the driver received it:
\* the sender lays the four fields out by the lengths it declares; the
\* buffer holds `slack` bytes more (or one less) than the declared size
InboundSkb(d, pt, slack, hs, ps, hl, pl, o, s, t) ==
    LET wire == HwAddr(hl, s) \o PrAddr(pl, s) \o HwAddr(hl, NSeeds + 1)
                    \o PrAddr(pl, t)
    IN  [len |-> ETH_HEADER_SIZE + ARPG_CALC_HDR_SZ(hl, pl) + slack,
         pkt_type |-> pt,
         h_dest |-> IF pt = "PACKET_HOST" THEN OwnMac ELSE Fill(ETH_ALEN, 255),
         h_source |-> HwAddr(ETH_ALEN, s),
         protocol |-> ETH_P_ARP,
         ha_space |-> htons(hs), pa_space |-> htons(ps),
         ha_len |-> hl, pa_len |-> pl, oper |-> htons(o),
         data |-> Resize(wire, 2 * (hl + pl) + slack),
         ip_daddr |-> <<>>]

\* an outgoing IP packet whose link-layer destination is not yet resolved
OutgoingSkb(d, dst) ==
    [NoSkb EXCEPT !.len = 60, !.pkt_type = "PACKET_HOST",
                  !.h_dest = Fill(ETH_ALEN, 170), !.h_source = OwnMac,
                  !.protocol = ETH_P_IP, !.ip_daddr = dst]

\* the neighbour cache before the operation: sender 1 is known under a
\* stale hardware address
Cache0 == {[paddr |-> PrAddr(IN_ADDR_LEN, 1), haddr |-> HwAddr(ETH_ALEN, 9),
            dev |-> "eth0"]}

NoArgs ==
    [caller |-> "none", oper |-> 0, paddr_space |-> 0, haddr_len |-> 0,
     paddr_len |-> 0, source_haddr |-> NULL, source_paddr |-> NULL,
     dest_haddr |-> NULL, dest_paddr |-> NULL, target_haddr |-> NULL,
     devp |-> "NULL"]

NoTmp == [src_paddr |-> <<>>, dst_haddr |-> <<>>, dst_paddr |-> <<>>]

NoStuff == [sha |-> 0, spa |-> 0, tha |-> 0, tpa |-> 0]

\* context 1 enters arp_rcv, arp_resolve or arp_send; context 2 is off
InitCommon ==
    /\ bigEndian \in BOOLEAN
    /\ arps = [c \in Ctx |-> NoStuff]
    /\ tmp = [c \in Ctx |-> NoTmp]
    /\ daddr = [c \in Ctx |-> <<>>]
    /\ ret = [c \in Ctx |-> 0]
    /\ freed = [c \in Ctx |-> 0]
    /\ calls = [c \in Ctx |-> <<>>]
    /\ reads = [c \in Ctx |-> {}]
    /\ txq = <<>>
    /\ cache = Cache0
    /\ drained = <<>>

InitRcv ==
    \E pt \in PktTypes, slack \in -1..MaxPad,
       hs \in {ARPG_HRD_ETHERNET, ARPG_HRD_ETHERNET + 1},
       ps \in {ETH_P_IP, ETH_P_ARP}, hl \in HaLens, pl \in PaLens,
       o \in 1..MaxOper, s \in 1..NSeeds, t \in 0..1 :
        /\ dev \in Devices
        /\ bargs = [c \in Ctx |-> NoArgs]
        /\ op = [c \in Ctx |-> IF c = 1 THEN "rcv" ELSE "off"]
        /\ pc = [c \in Ctx |-> IF c = 1 THEN "arp_rcv" ELSE "off"]
        /\ skb = [c \in Ctx |->
                    IF c = 1
                    THEN InboundSkb(dev, pt, slack, hs, ps, hl, pl, o, s, t)
                    ELSE NoSkb]

InitResolve ==
    \E dst \in {OwnIp, BroadcastIp} \cup
               {PrAddr(IN_ADDR_LEN, s) : s \in 1..NSeeds} :
        /\ dev \in Devices
        /\ bargs = [c \in Ctx |-> NoArgs]
        /\ op = [c \in Ctx |-> IF c = 1 THEN "resolve" ELSE "off"]
        /\ pc = [c \in Ctx |-> IF c = 1 THEN "arp_resolve" ELSE "off"]
        /\ skb = [c \in Ctx |-> IF c = 1 THEN OutgoingSkb(dev, dst) ELSE NoSkb]

\* the devices arp_send is called for: also one with 2-byte addresses
SendDevices ==
    Devices \cup
    [name : {"eth0"}, type : {ARPG_HRD_ETHERNET}, addr_len : {ETH_ALEN - 4},
     dev_addr : {OwnMac}, noarp : BOOLEAN, ifa_address : {OwnIp}]

\* the parameters of an arp_send call; an omitted address is NULL
SendArgs ==
    {[caller |-> "arp_send", oper |-> o, paddr_space |-> ps,
      haddr_len |-> hl, paddr_len |-> pl,
      source_haddr |-> IF sh THEN HwAddr(hl, s) ELSE NULL,
      source_paddr |-> IF sp THEN PrAddr(pl, 0) ELSE NULL,
      dest_haddr |-> IF dh THEN HwAddr(hl, NSeeds + 1) ELSE NULL,
      dest_paddr |-> IF dp THEN PrAddr(pl, s) ELSE NULL,
      target_haddr |-> IF dh THEN HwAddr(hl, NSeeds + 1) ELSE NULL,
      devp |-> dv] :
        o \in {ARP_OPER_REQUEST, ARP_OPER_REPLY},
        ps \in {ETH_P_IP, ETH_P_ARP},
        hl \in {0, ETH_ALEN - 4, ETH_ALEN}, pl \in PaLens,
        s \in 1..NSeeds, sh \in BOOLEAN, sp \in BOOLEAN, dh \in BOOLEAN,
        dp \in BOOLEAN, dv \in {"dev", "NULL"}}

InitSend ==
    /\ dev \in SendDevices
    /\ \E a \in SendArgs :
            bargs = [c \in Ctx |-> IF c = 1 THEN a ELSE NoArgs]
    /\ op = [c \in Ctx |-> IF c = 1 THEN "send" ELSE "off"]
    /\ pc = [c \in Ctx |-> IF c = 1 THEN "arp_send" ELSE "off"]
    /\ skb = [c \in Ctx |-> NoSkb]

Init ==
    /\ InitCommon
    /\ (InitRcv \/ InitResolve \/ InitSend)
    /\ skb0 = skb

\* ------------------------------------------------- collaborator calls
Call(f, r, a) == [fn |-> f, ret |-> r, arg |-> a]

\* skb_free(skb) by context c
Freed(c) ==
    /\ freed' = [freed EXCEPT ![c] = @ + 1]
    /\ calls' = [calls EXCEPT ![c] = Append(@, Call("skb_free", 0, <<>>))]

\* `return r` from the entry point
Return(c, r) ==
    /\ pc' = [pc EXCEPT ![c] = "done"]
    /\ ret' = [ret EXCEPT ![c] = r]

\* neighbour_add: on success the entry for (paddr, dev) holds haddr
CacheAdd(ch, pa, ha, d) ==
    {e \in ch : ~(e.paddr = pa /\ e.dev = d)}
        \cup {[paddr |-> pa, haddr |-> ha, dev |-> d]}

\* ip_is_local(addr, check_broadcast, check_multicast)
ip_is_local(a, check_broadcast, check_multicast) ==
    \/ a = dev.ifa_address
    \/ (check_broadcast /\ a = BroadcastIp)

\* ------------------------------------------------------------ receive
\* variant of RcvAccepts: the device flags are not tested
RcvAccepts_noflag(pt, d) ==
    pt \in {"PACKET_HOST", "PACKET_BROADCAST", "PACKET_MULTICAST"}

\* arp_rcv: the recipient-class switch and the IFF_NOARP test
RcvAccepts(pt, d) ==
    /\ pt \in {"PACKET_HOST", "PACKET_BROADCAST", "PACKET_MULTICAST"}
    /\ ~d.noarp

arp_rcv(c) ==
    /\ pc[c] = "arp_rcv"
    /\ IF RcvAccepts(skb[c].pkt_type, dev)
       THEN /\ pc' = [pc EXCEPT ![c] = "arp_process"]
            /\ UNCHANGED <<ret, freed, calls>>
       ELSE /\ Freed(c)
            /\ Return(c, 0)
    /\ UNCHANGED <<bigEndian, dev, op, skb, arps, tmp, bargs, daddr, reads,
                   skb0, txq, cache, drained>>

\* variant of BadSize: the received length is compared with the size of an
\* Ethernet/IPv4 header, not with the size the header declares
BadSize_fixed(h) ==
    ETH_HEADER_SIZE + ARPG_CALC_HDR_SZ(ETH_ALEN, IN_ADDR_LEN) > h.len

\* arp_process: the size check of line 248
BadSize(h) == ETH_HEADER_SIZE + ARPG_HEADER_SIZE(h) > h.len

\* variant of BadHwInfo: the hardware-address length is not compared
BadHwInfo_nolen(h, d) == h.ha_space # htons(d.type)

\* arp_process: the device-capability check of lines 254-255
BadHwInfo(h, d) == h.ha_space # htons(d.type) \/ h.ha_len # d.addr_len

\* arp_process: where the switch on ntohs(arph->oper) goes
OperBranch(h) ==
    IF ntohs(h.oper) = ARP_OPER_REQUEST THEN "arp_hnd_request"
    ELSE IF ntohs(h.oper) = ARP_OPER_REPLY THEN "arp_hnd_reply"
    ELSE "default"

\* arp_process: the fixed fields read up to the return or the handler call;
\* each check is evaluated only when the one before it passed
ProcessReads(h, d) ==
    IF BadSize(h) THEN {"ha_len", "pa_len"}
    ELSE IF BadHwInfo(h, d) THEN {"ha_len", "pa_len", "ha_space"}
    ELSE {"ha_len", "pa_len", "ha_space", "oper"}

arp_process(c) ==
    /\ pc[c] = "arp_process"
    /\ reads' = [reads EXCEPT ![c] = @ \cup ProcessReads(skb[c], dev)]
    /\ IF BadSize(skb[c]) \/ BadHwInfo(skb[c], dev)
          \/ OperBranch(skb[c]) = "default"
       THEN /\ Freed(c)
            /\ Return(c, 0)
            /\ UNCHANGED arps
       ELSE /\ arps' = [arps EXCEPT ![c] = arpg_make_stuff(skb[c])]
            /\ pc' = [pc EXCEPT ![c] = OperBranch(skb[c])]
            /\ UNCHANGED <<ret, freed, calls>>
    /\ UNCHANGED <<bigEndian, dev, op, skb, tmp, bargs, daddr, skb0, txq,
                   cache, drained>>

\* the field at offset off of the header, n bytes
Field(h, off, n) == Bytes(h.data, off, n)

\* variant of BadProto: the protocol-address space is not compared
BadProto_nospace(h, d) == h.pa_len # Len(d.ifa_address)

\* arp_hnd_request: the protocol-capability check of lines 184-185
BadProto(h, d) ==
    h.pa_space # htons(ETH_P_IP) \/ h.pa_len # Len(d.ifa_address)

\* variant of NotForUs: the comparison stops one byte early
NotForUs_short(h, st, d) ==
    Field(h, st.tpa, h.pa_len - 1) # Bytes(d.ifa_address, 0, h.pa_len - 1)

\* arp_hnd_request: memcmp(arps->tpa, &in_dev->ifa_address, paddr_len) # 0
NotForUs(h, st, d) ==
    Field(h, st.tpa, h.pa_len) # Bytes(d.ifa_address, 0, h.pa_len)

\* arp_hnd_request: the temporaries of lines 197-201
RequestTmp(h, st) ==
    [src_paddr |-> Field(h, st.tpa, h.pa_len),
     dst_haddr |-> Field(h, st.sha, h.ha_len),
     dst_paddr |-> Field(h, st.spa, h.pa_len)]

\* variant of RequestBuildArgs: the reply keeps the request's sender and
\* target protocol addresses in place
RequestBuildArgs_unswapped(h, t) ==
    [caller |-> "arp_hnd_request", oper |-> ARP_OPER_REPLY,
     paddr_space |-> ntohs(h.pa_space), haddr_len |-> h.ha_len,
     paddr_len |-> h.pa_len, source_haddr |-> NULL,
     source_paddr |-> t.dst_paddr, dest_haddr |-> t.dst_haddr,
     dest_paddr |-> t.src_paddr, target_haddr |-> t.dst_haddr,
     devp |-> "dev"]

\* arp_hnd_request: the arguments of the arp_build call of lines 204-206
RequestBuildArgs(h, t) ==
    [caller |-> "arp_hnd_request", oper |-> ARP_OPER_REPLY,
     paddr_space |-> ntohs(h.pa_space), haddr_len |-> h.ha_len,
     paddr_len |-> h.pa_len, source_haddr |-> NULL,
     source_paddr |-> t.src_paddr, dest_haddr |-> t.dst_haddr,
     dest_paddr |-> t.dst_paddr, target_haddr |-> t.dst_haddr,
     devp |-> "dev"]

arp_hnd_request(c) ==
    /\ pc[c] = "arp_hnd_request"
    /\ IF BadProto(skb[c], dev)
       THEN /\ Freed(c)
            /\ Return(c, 0)
            /\ UNCHANGED <<tmp, bargs, reads>>
       ELSE IF NotForUs(skb[c], arps[c], dev)
       THEN /\ Freed(c)
            /\ Return(c, 0)
            /\ reads' = [reads EXCEPT ![c] = @ \cup {"tpa"}]
            /\ UNCHANGED <<tmp, bargs>>
       ELSE /\ tmp' = [tmp EXCEPT ![c] = RequestTmp(skb[c], arps[c])]
            /\ bargs' = [bargs EXCEPT ![c] =
                            RequestBuildArgs(skb[c],
                                             RequestTmp(skb[c], arps[c]))]
            /\ reads' = [reads EXCEPT ![c] = @ \cup {"tpa", "sha", "spa"}]
            /\ pc' = [pc EXCEPT ![c] = "arp_build"]
            /\ UNCHANGED <<ret, freed, calls>>
    /\ UNCHANGED <<bigEndian, dev, op, skb, arps, daddr, skb0, txq, cache,
                   drained>>

\* -------------------------------------------------------------- build
\* the assertions of arp_build, lines 40-43
BuildPre(a, d) ==
    /\ a.haddr_len # 0 /\ a.paddr_len # 0
    /\ a.source_paddr # NULL /\ a.dest_paddr # NULL
    /\ a.devp # "NULL" /\ a.haddr_len = d.addr_len

\* dev->ops->create_hdr on an Ethernet device: the link-layer addresses
create_hdr(h, target_haddr, source_haddr, d) ==
    [h EXCEPT !.h_dest = IF target_haddr = NULL THEN @
                         ELSE CopyAt(@, 0, target_haddr, d.addr_len),
              !.h_source = CopyAt(@, 0, source_haddr, d.addr_len)]

\* arp_build, lines 46-51: the default sender address and the skb fields
BuildSource(a, d) ==
    IF a.source_haddr # NULL THEN a.source_haddr ELSE d.dev_addr

\* variant of BuildHeader: an omitted dest_haddr leaves the target hardware
\* field as the allocator gave it
BuildHeader_nozero(h, a, d) ==
    LET h1 == [h EXCEPT !.ha_space = htons(d.type),
                        !.pa_space = htons(a.paddr_space),
                        !.ha_len = a.haddr_len,
                        !.pa_len = a.paddr_len,
                        !.oper = htons(a.oper)]
        st == arpg_make_stuff(h1)
        d1 == CopyAt(h1.data, st.sha, BuildSource(a, d), a.haddr_len)
        d2 == CopyAt(d1, st.spa, a.source_paddr, a.paddr_len)
        d3 == IF a.dest_haddr # NULL
              THEN CopyAt(d2, st.tha, a.dest_haddr, a.haddr_len)
              ELSE d2
        d4 == CopyAt(d3, st.tpa, a.dest_paddr, a.paddr_len)
    IN  [h1 EXCEPT !.data = d4]

\* arp_build, lines 63-81: the fixed fields, then the four variable fields
\* written at the offsets arpg_make_stuff gives for the new header
BuildHeader(h, a, d) ==
    LET h1 == [h EXCEPT !.ha_space = htons(d.type),
                        !.pa_space = htons(a.paddr_space),
                        !.ha_len = a.haddr_len,
                        !.pa_len = a.paddr_len,
                        !.oper = htons(a.oper)]
        st == arpg_make_stuff(h1)
        d1 == CopyAt(h1.data, st.sha, BuildSource(a, d), a.haddr_len)
        d2 == CopyAt(d1, st.spa, a.source_paddr, a.paddr_len)
        d3 == IF a.dest_haddr # NULL
              THEN CopyAt(d2, st.tha, a.dest_haddr, a.haddr_len)
              ELSE CopyAt(d2, st.tha, Fill(a.haddr_len, 0), a.haddr_len)
        d4 == CopyAt(d3, st.tpa, a.dest_paddr, a.paddr_len)
    IN  [h1 EXCEPT !.data = d4]

\* a failed assertion aborts, unless the build compiles assertions out
arp_build(c) ==
    /\ pc[c] = "arp_build"
    /\ \E aborts \in (IF BuildPre(bargs[c], dev) THEN {FALSE} ELSE BOOLEAN),
          r \in {0, -EINVAL} :
        IF aborts
        THEN /\ pc' = [pc EXCEPT ![c] = "abort"]
             /\ UNCHANGED <<skb, ret, calls>>
        ELSE LET h0 == [skb[c] EXCEPT !.protocol = ETH_P_ARP]
                 h1 == create_hdr(h0, bargs[c].target_haddr,
                                  BuildSource(bargs[c], dev), dev)
             IN  /\ calls' = [calls EXCEPT ![c] =
                                Append(@, Call("create_hdr", r, <<>>))]
                 /\ ret' = [ret EXCEPT ![c] = r]
                 /\ pc' = [pc EXCEPT ![c] = bargs[c].caller \o "_ret"]
                 /\ skb' = [skb EXCEPT ![c] =
                              IF r # 0 THEN h0
                              ELSE BuildHeader(h1, bargs[c], dev)]
    /\ UNCHANGED <<bigEndian, dev, op, arps, tmp, bargs, daddr, freed, reads,
                   skb0, txq, cache, drained>>

\* variant of arp_hnd_request_ret: the failure path returns without skb_free
arp_hnd_request_ret_leak(c) ==
    /\ pc[c] = "arp_hnd_request_ret"
    /\ IF ret[c] # 0
       THEN /\ Return(c, ret[c])
            /\ UNCHANGED <<freed, calls>>
       ELSE /\ pc' = [pc EXCEPT ![c] = "arp_xmit"]
            /\ UNCHANGED <<ret, freed, calls>>
    /\ UNCHANGED <<bigEndian, dev, op, skb, arps, tmp, bargs, daddr, reads,
                   skb0, txq, cache, drained>>

\* variant of arp_hnd_request_ret: the requester's address pair is merged
\* into the cache before the reply is sent
arp_hnd_request_ret_learn(c) ==
    /\ pc[c] = "arp_hnd_request_ret"
    /\ IF ret[c] # 0
       THEN /\ Freed(c)
            /\ Return(c, ret[c])
            /\ UNCHANGED cache
       ELSE /\ pc' = [pc EXCEPT ![c] = "arp_xmit"]
            /\ cache' = CacheAdd(cache, tmp[c].dst_paddr, tmp[c].dst_haddr,
                                 dev.name)
            /\ UNCHANGED <<ret, freed, calls>>
    /\ UNCHANGED <<bigEndian, dev, op, skb, arps, tmp, bargs, daddr, reads,
                   skb0, txq, drained>>

\* arp_hnd_request, lines 207-213: after arp_build returned
arp_hnd_request_ret(c) ==
    /\ pc[c] = "arp_hnd_request_ret"
    /\ IF ret[c] # 0
       THEN /\ Freed(c)
            /\ Return(c, ret[c])
       ELSE /\ pc' = [pc EXCEPT ![c] = "arp_xmit"]
            /\ UNCHANGED <<ret, freed, calls>>
    /\ UNCHANGED <<bigEndian, dev, op, skb, arps, tmp, bargs, daddr, reads,
                   skb0, txq, cache, drained>>

\* variant of arp_xmit: the buffer to transmit is kept in one place shared
\* by all contexts
arp_xmit_shared(c) ==
    /\ pc[c] = "arp_xmit"
    /\ \E r \in {0, -ENOMEM} :
        /\ txq' = Append(txq, [ctx |-> c, skb |-> skb[1]])
        /\ calls' = [calls EXCEPT ![c] =
                        Append(@, Call("dev_xmit_skb", r, <<>>))]
        /\ Return(c, r)
    /\ UNCHANGED <<bigEndian, dev, op, skb, arps, tmp, bargs, daddr, freed,
                   reads, skb0, cache, drained>>

\* arp_xmit: dev_xmit_skb takes the buffer over, whatever it returns
arp_xmit(c) ==
    /\ pc[c] = "arp_xmit"
    /\ \E r \in {0, -ENOMEM} :
        /\ txq' = Append(txq, [ctx |-> c, skb |-> skb[c]])
        /\ calls' = [calls EXCEPT ![c] =
                        Append(@, Call("dev_xmit_skb", r, <<>>))]
        /\ Return(c, r)
    /\ UNCHANGED <<bigEndian, dev, op, skb, arps, tmp, bargs, daddr, freed,
                   reads, skb0, cache, drained>>

\* --------------------------------------------------------------- send
\* variant of SendBadArgs: haddr_len is not compared with dev->addr_len
SendBadArgs_nolen(a, d) ==
    \/ a.haddr_len = 0 \/ a.paddr_len = 0
    \/ a.source_paddr = NULL \/ a.dest_paddr = NULL
    \/ a.devp = "NULL"

\* arp_send: the argument check of lines 99-101
SendBadArgs(a, d) ==
    \/ a.haddr_len = 0 \/ a.paddr_len = 0
    \/ a.source_paddr = NULL \/ a.dest_paddr = NULL
    \/ a.devp = "NULL" \/ a.haddr_len # d.addr_len

\* arp_send: the device-flag check of line 106
SendNoArp(a, d) == d.noarp

\* variant of SendAllocSize: the size of an Ethernet/IPv4 header whatever
\* the lengths given
SendAllocSize_eth(a) ==
    ETH_HEADER_SIZE + ARPG_CALC_HDR_SZ(ETH_ALEN, IN_ADDR_LEN)

\* arp_send: the size given to skb_alloc at line 111
SendAllocSize(a) ==
    ETH_HEADER_SIZE + ARPG_CALC_HDR_SZ(a.haddr_len, a.paddr_len)

\* skb_alloc(size): a buffer of size bytes whose contents are not
\* initialized (every byte is `junk`)
skb_alloc(size, junk) ==
    [NoSkb EXCEPT !.len = size,
                  !.h_dest = Fill(ETH_ALEN, junk),
                  !.h_source = Fill(ETH_ALEN, junk),
                  !.ha_space = junk, !.pa_space = junk, !.ha_len = junk,
                  !.pa_len = junk, !.oper = junk,
                  !.data = Fill(size - ETH_HEADER_SIZE - ARPG_FIXED_SIZE,
                                junk)]

\* arp_send, lines 99-114: the checks, then skb_alloc
arp_send(c) ==
    /\ pc[c] = "arp_send"
    /\ IF SendBadArgs(bargs[c], dev) \/ SendNoArp(bargs[c], dev)
       THEN /\ Return(c, -EINVAL)
            /\ UNCHANGED <<skb, calls>>
       ELSE \E r \in {0, -ENOMEM}, junk \in {0, 255} :
            /\ calls' = [calls EXCEPT ![c] =
                            Append(@, Call("skb_alloc", r, <<>>))]
            /\ IF r # 0
               THEN /\ Return(c, -ENOMEM)
                    /\ UNCHANGED skb
               ELSE /\ skb' = [skb EXCEPT ![c] =
                                 skb_alloc(SendAllocSize(bargs[c]), junk)]
                    /\ pc' = [pc EXCEPT ![c] = "arp_build"]
                    /\ UNCHANGED ret
    /\ UNCHANGED <<bigEndian, dev, op, arps, tmp, bargs, daddr, freed, reads,
                   skb0, txq, cache, drained>>

\* arp_send: the assertion of line 125
SendSizeOk(h) == ETH_HEADER_SIZE + ARPG_HEADER_SIZE(h) = h.len

\* variant of arp_send_ret: a failed build returns without skb_free
arp_send_ret_leak(c) ==
    /\ pc[c] = "arp_send_ret"
    /\ IF ret[c] # 0
       THEN /\ Return(c, ret[c])
            /\ UNCHANGED <<freed, calls>>
       ELSE /\ pc' = [pc EXCEPT ![c] = "arp_xmit"]
            /\ UNCHANGED <<ret, freed, calls>>
    /\ UNCHANGED <<bigEndian, dev, op, skb, arps, tmp, bargs, daddr, reads,
                   skb0, txq, cache, drained>>

\* arp_send, lines 119-128: after arp_build returned
arp_send_ret(c) ==
    /\ pc[c] = "arp_send_ret"
    /\ IF ret[c] # 0
       THEN /\ Freed(c)
            /\ Return(c, ret[c])
       ELSE /\ \E aborts \in (IF SendSizeOk(skb[c]) THEN {FALSE}
                              ELSE BOOLEAN) :
                pc' = [pc EXCEPT ![c] = IF aborts THEN "abort"
                                        ELSE "arp_xmit"]
            /\ UNCHANGED <<ret, freed, calls>>
    /\ UNCHANGED <<bigEndian, dev, op, skb, arps, tmp, bargs, daddr, reads,
                   skb0, txq, cache, drained>>

\* -------------------------------------------------------------- reply
\* variant of ReplyEntry: the target pair is learned instead of the sender's
ReplyEntry_target(h, st) ==
    [haddr |-> Field(h, st.tha, h.ha_len),
     paddr |-> Field(h, st.tpa, h.pa_len)]

\* arp_hnd_reply, lines 227-228: the address pair given to neighbour_add
ReplyEntry(h, st) ==
    [haddr |-> Field(h, st.sha, h.ha_len),
     paddr |-> Field(h, st.spa, h.pa_len)]

\* arp_hnd_reply, line 227: neighbour_add(sha, ha_len, spa, pa_len, dev, 0)
arp_hnd_reply(c) ==
    /\ pc[c] = "arp_hnd_reply"
    /\ \E r \in {0, -ENOMEM} :
        LET e == ReplyEntry(skb[c], arps[c])
        IN  /\ cache' = IF r = 0
                        THEN CacheAdd(cache, e.paddr, e.haddr, dev.name)
                        ELSE cache
            /\ calls' = [calls EXCEPT ![c] =
                            Append(@, Call("neighbour_add", r,
                                           <<e.paddr, e.haddr>>))]
            /\ ret' = [ret EXCEPT ![c] = r]
    /\ reads' = [reads EXCEPT ![c] = @ \cup {"sha", "spa"}]
    /\ pc' = [pc EXCEPT ![c] = "arp_hnd_reply_drain"]
    /\ UNCHANGED <<bigEndian, dev, op, skb, arps, tmp, bargs, daddr, freed,
                   skb0, txq, drained>>

\* arp_hnd_reply, line 229: arp_queue_process(skb)
arp_hnd_reply_drain(c) ==
    /\ pc[c] = "arp_hnd_reply_drain"
    /\ drained' = Append(drained, Spa(skb[c]))
    /\ calls' = [calls EXCEPT ![c] =
                    Append(@, Call("arp_queue_process", 0, <<Spa(skb[c])>>))]
    /\ pc' = [pc EXCEPT ![c] = "arp_hnd_reply_free"]
    /\ UNCHANGED <<bigEndian, dev, op, skb, arps, tmp, bargs, daddr, ret,
                   freed, reads, skb0, txq, cache>>

\* variant of arp_hnd_reply_free: the handler reports success whatever
\* neighbour_add returned
arp_hnd_reply_free_zero(c) ==
    /\ pc[c] = "arp_hnd_reply_free"
    /\ Freed(c)
    /\ Return(c, 0)
    /\ UNCHANGED <<bigEndian, dev, op, skb, arps, tmp, bargs, daddr, reads,
                   skb0, txq, cache, drained>>

\* arp_hnd_reply, lines 230-231: skb_free(skb); return ret
arp_hnd_reply_free(c) ==
    /\ pc[c] = "arp_hnd_reply_free"
    /\ Freed(c)
    /\ Return(c, ret[c])
    /\ UNCHANGED <<bigEndian, dev, op, skb, arps, tmp, bargs, daddr, reads,
                   skb0, txq, cache, drained>>

\* ------------------------------------------------------------ resolve
\* the next hop a route through a gateway gives
Gateway == PrAddr(IN_ADDR_LEN, 1)

\* variant of ResolveOutcome: the two memset values are exchanged
ResolveOutcome_swapped(h_dest, r, nh) ==
    IF r # 0
    THEN [pc |-> "done", ret |-> r, h_dest |-> h_dest]
    ELSE IF ip_is_local(nh, FALSE, FALSE)
    THEN [pc |-> "done", ret |-> ENOERR, h_dest |-> Fill(ETH_ALEN, 255)]
    ELSE IF nh = BroadcastIp
    THEN [pc |-> "done", ret |-> ENOERR, h_dest |-> Fill(ETH_ALEN, 0)]
    ELSE [pc |-> "arp_resolve_neighbour", ret |-> r, h_dest |-> h_dest]

\* variant of ResolveOutcome: the routing lookup's result is not tested
ResolveOutcome_unchecked(h_dest, r, nh) ==
    IF ip_is_local(nh, FALSE, FALSE)
    THEN [pc |-> "done", ret |-> ENOERR, h_dest |-> Fill(ETH_ALEN, 0)]
    ELSE IF nh = BroadcastIp
    THEN [pc |-> "done", ret |-> ENOERR, h_dest |-> Fill(ETH_ALEN, 255)]
    ELSE [pc |-> "arp_resolve_neighbour", ret |-> r, h_dest |-> h_dest]

\* arp_resolve, lines 139-153: what follows the routing lookup's result r
\* and next hop nh: the position reached, the value in `ret`, and h_dest
ResolveOutcome(h_dest, r, nh) ==
    IF r # 0
    THEN [pc |-> "done", ret |-> r, h_dest |-> h_dest]
    ELSE IF ip_is_local(nh, FALSE, FALSE)
    THEN [pc |-> "done", ret |-> ENOERR, h_dest |-> Fill(ETH_ALEN, 0)]
    ELSE IF nh = BroadcastIp
    THEN [pc |-> "done", ret |-> ENOERR, h_dest |-> Fill(ETH_ALEN, 255)]
    ELSE [pc |-> "arp_resolve_neighbour", ret |-> r, h_dest |-> h_dest]

\* arp_resolve, line 138: rt_fib_route_ip(skb->nh.iph->daddr, &daddr)
arp_resolve(c) ==
    /\ pc[c] = "arp_resolve"
    /\ \E r \in {0, -ENETUNREACH}, nh \in {skb[c].ip_daddr, Gateway} :
        LET o == ResolveOutcome(skb[c].h_dest, r, nh)
        IN  /\ calls' = [calls EXCEPT ![c] =
                            Append(@, Call("rt_fib_route_ip", r,
                                           <<skb[c].ip_daddr, nh>>))]
            /\ daddr' = [daddr EXCEPT ![c] = IF r = 0 THEN nh ELSE @]
            /\ skb' = [skb EXCEPT ![c].h_dest = o.h_dest]
            /\ pc' = [pc EXCEPT ![c] = o.pc]
            /\ ret' = [ret EXCEPT ![c] = o.ret]
    /\ UNCHANGED <<bigEndian, dev, op, arps, tmp, bargs, freed, reads, skb0,
                   txq, cache, drained>>

\* neighbour_get_hardware_address: the cached address, or "in progress"
\* after the packet was queued and a request sent by the neighbour module
neighbour_get_hardware_address(ch, pa, d) ==
    IF \E e \in ch : e.paddr = pa /\ e.dev = d
    THEN [ret |-> ENOERR,
          haddr |-> (CHOOSE e \in ch : e.paddr = pa /\ e.dev = d).haddr]
    ELSE [ret |-> -EINPROGRESS, haddr |-> NULL]

\* variant of arp_resolve_neighbour: a failed lookup releases the buffer
arp_resolve_neighbour_release(c) ==
    /\ pc[c] = "arp_resolve_neighbour"
    /\ LET n == neighbour_get_hardware_address(cache, daddr[c], dev.name)
       IN  /\ calls' = [calls EXCEPT ![c] =
                          IF n.ret # ENOERR
                          THEN Append(Append(@,
                                   Call("neighbour_get_hardware_address",
                                        n.ret, <<daddr[c]>>)),
                                   Call("skb_free", 0, <<>>))
                          ELSE Append(@,
                                   Call("neighbour_get_hardware_address",
                                        n.ret, <<daddr[c]>>))]
           /\ freed' = [freed EXCEPT ![c] = IF n.ret # ENOERR THEN @ + 1
                                            ELSE @]
           /\ skb' = [skb EXCEPT ![c].h_dest =
                        IF n.ret = ENOERR THEN n.haddr ELSE @]
           /\ Return(c, IF n.ret # ENOERR THEN n.ret ELSE ENOERR)
    /\ UNCHANGED <<bigEndian, dev, op, arps, tmp, bargs, daddr, reads,
                   skb0, txq, cache, drained>>

\* variant of arp_resolve_neighbour: the address before routing is looked up
arp_resolve_neighbour_unrouted(c) ==
    /\ pc[c] = "arp_resolve_neighbour"
    /\ LET n == neighbour_get_hardware_address(cache, skb[c].ip_daddr,
                                               dev.name)
       IN  /\ calls' = [calls EXCEPT ![c] =
                          Append(@, Call("neighbour_get_hardware_address",
                                         n.ret, <<skb[c].ip_daddr>>))]
           /\ skb' = [skb EXCEPT ![c].h_dest =
                        IF n.ret = ENOERR THEN n.haddr ELSE @]
           /\ Return(c, IF n.ret # ENOERR THEN n.ret ELSE ENOERR)
    /\ UNCHANGED <<bigEndian, dev, op, arps, tmp, bargs, daddr, freed, reads,
                   skb0, txq, cache, drained>>

\* arp_resolve, lines 156-163
arp_resolve_neighbour(c) ==
    /\ pc[c] = "arp_resolve_neighbour"
    /\ LET n == neighbour_get_hardware_address(cache, daddr[c], dev.name)
       IN  /\ calls' = [calls EXCEPT ![c] =
                          Append(@, Call("neighbour_get_hardware_address",
                                         n.ret, <<daddr[c]>>))]
           /\ skb' = [skb EXCEPT ![c].h_dest =
                        IF n.ret = ENOERR THEN n.haddr ELSE @]
           /\ Return(c, IF n.ret # ENOERR THEN n.ret ELSE ENOERR)
    /\ UNCHANGED <<bigEndian, dev, op, arps, tmp, bargs, daddr, freed, reads,
                   skb0, txq, cache, drained>>

\* ------------------------------------------------------ specification
Next ==
    \E c \in Ctx :
        \/ arp_rcv(c)
        \/ arp_process(c)
        \/ arp_hnd_request(c)
        \/ arp_build(c)
        \/ arp_hnd_request_ret(c)
        \/ arp_xmit(c)
        \/ arp_hnd_reply(c)
        \/ arp_hnd_reply_drain(c)
        \/ arp_hnd_reply_free(c)
        \/ arp_resolve(c)
        \/ arp_resolve_neighbour(c)
        \/ arp_send(c)
        \/ arp_send_ret(c)

Spec == Init /\ [][Next]_vars

\* ------------------------------------------- concurrent receives
\* Ethernet/IPv4 packets of every operation, for the device or for another
\* host, asking for the device's address or for another
ConcPackets(d) ==
    {InboundSkb(d, pt, 0, ARPG_HRD_ETHERNET, ETH_P_IP, ETH_ALEN, IN_ADDR_LEN,
                o, s, t) :
        pt \in {"PACKET_HOST", "PACKET_OTHERHOST"}, o \in 1..MaxOper,
        s \in 1..NSeeds, t \in 0..1}

\* arp_rcv entered on context 1, and on context 2 with a buffer of its own
\* or not at all
InitConc ==
    /\ InitCommon
    /\ dev \in {d \in Devices : d.addr_len = ETH_ALEN /\ ~d.noarp}
    /\ bargs = [c \in Ctx |-> NoArgs]
    /\ \E p1 \in ConcPackets(dev), p2 \in ConcPackets(dev) \cup {NoSkb} :
            skb = [c \in Ctx |-> IF c = 1 THEN p1 ELSE p2]
    /\ op = [c \in Ctx |-> IF skb[c] = NoSkb THEN "off" ELSE "rcv"]
    /\ pc = [c \in Ctx |-> IF skb[c] = NoSkb THEN "off" ELSE "arp_rcv"]
    /\ skb0 = skb

\* the steps of the receive path, taken by either context in any order
NextConc ==
    \E c \in Ctx :
        \/ arp_rcv(c)
        \/ arp_process(c)
        \/ arp_hnd_request(c)
        \/ arp_build(c)
        \/ arp_hnd_request_ret(c)
        \/ arp_xmit(c)
        \/ arp_hnd_reply(c)
        \/ arp_hnd_reply_drain(c)
        \/ arp_hnd_reply_free(c)

SpecConc == InitConc /\ [][NextConc]_vars

\* ------------------------------------------------------------ claims
\* number of buffers context c handed to the transmit gateway
Xmits(c) == Cardinality({i \in DOMAIN txq : txq[i].ctx = c})

\* the buffer context c handed to the transmit gateway
Sent(c) == txq[CHOOSE i \in DOMAIN txq : txq[i].ctx = c].skb

\* names of the collaborator calls of context c, in order
CallNames(c) == [i \in DOMAIN calls[c] |-> calls[c][i].fn]

\* number of calls of f by context c
NCalls(c, f) == Cardinality({i \in DOMAIN calls[c] : calls[c][i].fn = f})

\* the packet passes the recipient-class and ARP-enabled checks
PassesRcv(h, d) ==
    /\ h.pkt_type \in {"PACKET_HOST", "PACKET_BROADCAST", "PACKET_MULTICAST"}
    /\ ~d.noarp

\* the four discard cases of dispatch, stated on the packet as it arrived
SizeExceeds(h) ==
    ETH_HEADER_SIZE + ARPG_FIXED_SIZE + 2 * (h.ha_len + h.pa_len) > h.len

HwSpaceDiffers(h, d) == ntohs(h.ha_space) # d.type

HwLenDiffers(h, d) == h.ha_len # d.addr_len

OperUnknown(h) == ntohs(h.oper) \notin {ARP_OPER_REQUEST, ARP_OPER_REPLY}

\* the packet passes dispatcher validation
Validated(h, d) ==
    /\ PassesRcv(h, d)
    /\ ~SizeExceeds(h) /\ ~HwSpaceDiffers(h, d) /\ ~HwLenDiffers(h, d)
    /\ ~OperUnknown(h)

\* the core discarded context c's packet: released once, nothing sent,
\* cache and pending queue untouched, result 0
Discarded(c) ==
    /\ freed[c] = 1 /\ Xmits(c) = 0
    /\ NCalls(c, "skb_free") = 1
    /\ cache = Cache0 /\ drained = <<>>
    /\ NCalls(c, "neighbour_add") = 0 /\ NCalls(c, "arp_queue_process") = 0
    /\ ret[c] = 0

\* nothing but a release has happened, or may yet happen, to the buffer
Untouched(c) ==
    /\ Xmits(c) = 0 /\ cache = Cache0 /\ drained = <<>>
    /\ pc[c] \notin {"arp_build", "arp_xmit", "arp_hnd_request_ret",
                     "arp_hnd_reply", "arp_hnd_reply_drain",
                     "arp_hnd_reply_free", "abort"}

\* C1: every buffer given to arp_rcv is, when arp_rcv returns, either
\* released once or handed to the transmit gateway once; in no state is it
\* released twice, sent twice, or both released and sent.
C1_DisposedOnce ==
    \A c \in Ctx :
        op[c] = "rcv" =>
            /\ freed[c] + Xmits(c) <= 1
            /\ freed[c] = NCalls(c, "skb_free")
            /\ Xmits(c) = NCalls(c, "dev_xmit_skb")
            /\ (pc[c] = "done" => freed[c] + Xmits(c) = 1)

\* C1 witness: arp_rcv returned after a failed reply build released the buffer
C1_Witness ==
    \E c \in Ctx :
        /\ op[c] = "rcv" /\ pc[c] = "done"
        /\ NCalls(c, "create_hdr") = 1 /\ ret[c] # 0
        /\ freed[c] = 1 /\ Xmits(c) = 0

\* an IPv4 REQUEST for the device's address that passes validation
AnswerableRequest(h, d) ==
    /\ Validated(h, d)
    /\ ntohs(h.oper) = ARP_OPER_REQUEST
    /\ ntohs(h.pa_space) = ETH_P_IP
    /\ h.pa_len = IN_ADDR_LEN
    /\ Tpa(h) = d.ifa_address

\* the reply header was built: create_hdr was called and returned 0
BuildSucceeded(c) ==
    \E i \in DOMAIN calls[c] :
        calls[c][i].fn = "create_hdr" /\ calls[c][i].ret = 0

\* C2: an answerable REQUEST whose reply header builds yields exactly one
\* transmitted packet, a REPLY with sender = (request's target protocol
\* address, device's hardware address), target = the request's sender pair,
\* sent to the requester's hardware address at the link layer.
C2_ReplySwapsRoles ==
    \A c \in Ctx :
        (/\ op[c] = "rcv" /\ pc[c] = "done"
         /\ AnswerableRequest(skb0[c], dev)
         /\ BuildSucceeded(c))
        => /\ Xmits(c) = 1 /\ Len(txq) = 1
           /\ ntohs(Sent(c).oper) = ARP_OPER_REPLY
           /\ ntohs(Sent(c).ha_space) = dev.type
           /\ ntohs(Sent(c).pa_space) = ETH_P_IP
           /\ Sent(c).ha_len = skb0[c].ha_len
           /\ Sent(c).pa_len = skb0[c].pa_len
           /\ Spa(Sent(c)) = Tpa(skb0[c])
           /\ Sha(Sent(c)) = DevHaddr(dev)
           /\ Tha(Sent(c)) = Sha(skb0[c])
           /\ Tpa(Sent(c)) = Spa(skb0[c])
           /\ Bytes(Sent(c).h_dest, 0, dev.addr_len) = Sha(skb0[c])

\* C2 witness: a reply to a request from a 6-byte hardware address was sent
C2_Witness ==
    \E c \in Ctx :
        /\ op[c] = "rcv" /\ pc[c] = "done"
        /\ AnswerableRequest(skb0[c], dev) /\ BuildSucceeded(c)
        /\ skb0[c].ha_len = ETH_ALEN
        /\ Xmits(c) = 1
        /\ Spa(skb0[c]) = PrAddr(IN_ADDR_LEN, 1)
        /\ Tpa(Sent(c)) = PrAddr(IN_ADDR_LEN, 1)

\* C3: a REQUEST whose target protocol address is not the device's is
\* never answered and never touches cache or queue; when arp_rcv returns
\* the buffer is released and the result is 0.
C3_NotOwnedDiscarded ==
    \A c \in Ctx :
        (/\ op[c] = "rcv"
         /\ ntohs(skb0[c].oper) = ARP_OPER_REQUEST
         /\ Tpa(skb0[c]) # dev.ifa_address)
        => /\ Untouched(c)
           /\ (pc[c] = "done" => Discarded(c))

\* C3 witness: a valid IPv4 request for another host's address was
\* compared against the device's address and discarded
C3_Witness ==
    \E c \in Ctx :
        /\ op[c] = "rcv" /\ pc[c] = "done"
        /\ Validated(skb0[c], dev)
        /\ ntohs(skb0[c].oper) = ARP_OPER_REQUEST
        /\ ntohs(skb0[c].pa_space) = ETH_P_IP
        /\ skb0[c].pa_len = IN_ADDR_LEN
        /\ Tpa(skb0[c]) = PrAddr(IN_ADDR_LEN, 1)
        /\ "tpa" \in reads[c]
        /\ Discarded(c)

\* the cache maps protocol address pa to hardware address ha on device d
CacheMaps(pa, ha, d) ==
    /\ \E e \in cache : e.paddr = pa /\ e.haddr = ha /\ e.dev = d
    /\ \A e \in cache : (e.paddr = pa /\ e.dev = d) => e.haddr = ha

\* context c received a REPLY that passes dispatcher validation
ValidReply(c) ==
    /\ op[c] = "rcv"
    /\ Validated(skb0[c], dev)
    /\ ntohs(skb0[c].oper) = ARP_OPER_REPLY

C5_DispatchDiscards ==
    \A c \in Ctx :
        (/\ op[c] = "rcv"
         /\ PassesRcv(skb0[c], dev)
         /\ \/ SizeExceeds(skb0[c])
            \/ HwSpaceDiffers(skb0[c], dev)
            \/ HwLenDiffers(skb0[c], dev)
            \/ OperUnknown(skb0[c]))
        => /\ Untouched(c)
           /\ pc[c] \in {"arp_rcv", "arp_process", "done"}
           /\ (pc[c] = "done" => Discarded(c))

\* C5 witness: a REPLY declaring a hardware-address length the device does
\* not have, in a buffer long enough for it, was discarded
C5_Witness ==
    \E c \in Ctx :
        /\ op[c] = "rcv" /\ pc[c] = "done"
        /\ PassesRcv(skb0[c], dev)
        /\ ~SizeExceeds(skb0[c]) /\ ~HwSpaceDiffers(skb0[c], dev)
        /\ skb0[c].ha_len = ETH_ALEN + 1 /\ dev.addr_len = ETH_ALEN
        /\ ntohs(skb0[c].oper) = ARP_OPER_REPLY
        /\ Discarded(c)

\* C6: a packet of another recipient class, or on a device with IFF_NOARP,
\* is discarded with no part of its ARP header read; only packets passing
\* both checks reach arp_process.
C6_RcvDiscards ==
    \A c \in Ctx :
        op[c] = "rcv" =>
            /\ ~PassesRcv(skb0[c], dev) =>
                    /\ reads[c] = {}
                    /\ Untouched(c)
                    /\ pc[c] \in {"arp_rcv", "done"}
                    /\ (pc[c] = "done" => Discarded(c))
            /\ (pc[c] = "arp_process" \/ reads[c] # {}) =>
                    PassesRcv(skb0[c], dev)

\* C6 witness: an otherwise valid REPLY addressed to this host was discarded
\* on a device with IFF_NOARP
C6_Witness ==
    \E c \in Ctx :
        /\ op[c] = "rcv" /\ pc[c] = "done"
        /\ dev.noarp /\ skb0[c].pkt_type = "PACKET_HOST"
        /\ ~SizeExceeds(skb0[c]) /\ ~HwSpaceDiffers(skb0[c], dev)
        /\ ~HwLenDiffers(skb0[c], dev)
        /\ ntohs(skb0[c].oper) = ARP_OPER_REPLY
        /\ reads[c] = {} /\ Discarded(c)

\* C7: a validated REQUEST whose protocol space is not IPv4, or whose
\* protocol-address length is not the width of the configured address, is
\* discarded without its target protocol address being read.
C7_NonIpv4Discarded ==
    \A c \in Ctx :
        (/\ op[c] = "rcv"
         /\ Validated(skb0[c], dev)
         /\ ntohs(skb0[c].oper) = ARP_OPER_REQUEST
         /\ \/ ntohs(skb0[c].pa_space) # ETH_P_IP
            \/ skb0[c].pa_len # IN_ADDR_LEN)
        => /\ Untouched(c)
           /\ "tpa" \notin reads[c]
           /\ (pc[c] = "done" => Discarded(c))

\* C7 witness: a request in another protocol space whose target bytes equal
\* the device's address was discarded
C7_Witness ==
    \E c \in Ctx :
        /\ op[c] = "rcv" /\ pc[c] = "done"
        /\ Validated(skb0[c], dev)
        /\ ntohs(skb0[c].oper) = ARP_OPER_REQUEST
        /\ ntohs(skb0[c].pa_space) # ETH_P_IP
        /\ skb0[c].pa_len = IN_ADDR_LEN
        /\ Tpa(skb0[c]) = dev.ifa_address
        /\ Discarded(c)

\* the routing lookup's result and the next hop it gave
RouteRet(c) == calls[c][1].ret

Routed(c) == calls[c][1].arg[2]

\* arp_resolve asked only the routing table
OnlyRouted(c) ==
    /\ CallNames(c) = <<"rt_fib_route_ip">>
    /\ txq = <<>> /\ drained = <<>> /\ cache = Cache0

\* C8: with a route, a local next hop gives success and six zero bytes, the
\* limited broadcast gives success and six 0xFF bytes, both without
\* neighbour-cache lookup, queue operation or transmission.
C8_LoopbackBroadcast ==
    \A c \in Ctx :
        (op[c] = "resolve" /\ calls[c] # <<>> /\ RouteRet(c) = 0) =>
            /\ Routed(c) = dev.ifa_address =>
                    /\ pc[c] = "done" /\ ret[c] = 0
                    /\ skb[c].h_dest = <<0, 0, 0, 0, 0, 0>>
                    /\ OnlyRouted(c)
            /\ Routed(c) = <<255, 255, 255, 255>> =>
                    /\ pc[c] = "done" /\ ret[c] = 0
                    /\ skb[c].h_dest = <<255, 255, 255, 255, 255, 255>>
                    /\ OnlyRouted(c)

\* C8 witness: a packet to the limited broadcast address was resolved
C8_Witness ==
    \E c \in Ctx :
        /\ op[c] = "resolve" /\ pc[c] = "done"
        /\ calls[c] # <<>> /\ RouteRet(c) = 0
        /\ Routed(c) = <<255, 255, 255, 255>>
        /\ skb[c].h_dest = <<255, 255, 255, 255, 255, 255>>

\* the result the neighbour module gives on a cache miss
Pending == neighbour_get_hardware_address({}, Gateway, dev.name).ret

\* C9: when the routing lookup fails arp_resolve returns its code, h_dest
\* is as it was, the neighbour cache is not asked, and the code differs
\* from the pending result.
C9_RouteFailure ==
    \A c \in Ctx :
        (op[c] = "resolve" /\ calls[c] # <<>> /\ RouteRet(c) # 0) =>
            /\ pc[c] = "done"
            /\ ret[c] = RouteRet(c)
            /\ skb[c].h_dest = skb0[c].h_dest
            /\ OnlyRouted(c)
            /\ ret[c] # Pending

\* C9 witness: arp_resolve returned the routing failure
C9_Witness ==
    \E c \in Ctx :
        /\ op[c] = "resolve" /\ pc[c] = "done"
        /\ calls[c] # <<>> /\ RouteRet(c) = -ENETUNREACH
        /\ ret[c] = -ENETUNREACH

\* C10: with a route to a next hop that is neither local nor broadcast,
\* arp_resolve asks the neighbour cache once, for the next hop, and returns
\* its result, the pending one on a miss; it transmits nothing itself.
C10_NeighbourOnce ==
    \A c \in Ctx :
        (/\ op[c] = "resolve" /\ calls[c] # <<>> /\ RouteRet(c) = 0
         /\ Routed(c) # dev.ifa_address
         /\ Routed(c) # <<255, 255, 255, 255>>)
        => /\ pc[c] \in {"arp_resolve_neighbour", "done"}
           /\ txq = <<>>
           /\ (pc[c] = "arp_resolve_neighbour" =>
                    CallNames(c) = <<"rt_fib_route_ip">>)
           /\ (pc[c] = "done" =>
                    /\ CallNames(c) = <<"rt_fib_route_ip",
                                        "neighbour_get_hardware_address">>
                    /\ calls[c][2].arg = <<Routed(c)>>
                    /\ ret[c] = calls[c][2].ret
                    /\ ((\A e \in cache : e.paddr # Routed(c))
                            => ret[c] = Pending)
                    /\ (ret[c] = 0 =>
                            CacheMaps(Routed(c), skb[c].h_dest, dev.name)))

\* C10 witness: the next hop of a routed packet missed the cache and the
\* pending result was returned
C10_Witness ==
    \E c \in Ctx :
        /\ op[c] = "resolve" /\ pc[c] = "done"
        /\ Len(calls[c]) = 2 /\ RouteRet(c) = 0
        /\ Routed(c) = PrAddr(IN_ADDR_LEN, 2)
        /\ ret[c] = Pending

\* C11 as stated: when arp_resolve returns, the outgoing buffer has been
\* released (or handed to the transmit gateway).
C11_ResolveReleases ==
    \A c \in Ctx :
        (op[c] = "resolve" /\ pc[c] = "done")
        => (freed[c] = 1 \/ Xmits(c) = 1)

\* C11 amended: arp_resolve releases the outgoing buffer on no exit path
\* and never hands it to the transmit gateway; on every return (routing
\* failure, loopback, broadcast, cache hit, cache miss) the buffer is still
\* the caller's.
C11_ResolveKeepsBuffer ==
    \A c \in Ctx :
        op[c] = "resolve" =>
            /\ freed[c] = 0 /\ NCalls(c, "skb_free") = 0
            /\ Xmits(c) = 0 /\ NCalls(c, "dev_xmit_skb") = 0
            /\ (pc[c] = "done" =>
                    /\ skb[c].len = skb0[c].len
                    /\ skb[c].ip_daddr = skb0[c].ip_daddr)

\* C11 witness: arp_resolve returned the pending result of a cache miss with
\* the buffer unreleased
C11_Witness ==
    \E c \in Ctx :
        /\ op[c] = "resolve" /\ pc[c] = "done"
        /\ NCalls(c, "neighbour_get_hardware_address") = 1
        /\ ret[c] # 0 /\ freed[c] = 0

\* the configuration mismatches arp_send rejects, on its parameters a
SendMismatch(a, d) ==
    \/ a.haddr_len = 0 \/ a.paddr_len = 0
    \/ a.source_paddr = <<-1>> \/ a.dest_paddr = <<-1>>
    \/ a.devp = "NULL"
    \/ a.haddr_len # d.addr_len
    \/ d.noarp

\* C12: on any configuration mismatch arp_send returns -EINVAL having
\* allocated no buffer, built no header and transmitted nothing.
C12_SendRejectsEarly ==
    \A c \in Ctx :
        (op[c] = "send" /\ SendMismatch(bargs[c], dev)) =>
            /\ pc[c] \in {"arp_send", "done"}
            /\ calls[c] = <<>>
            /\ skb[c] = NoSkb
            /\ txq = <<>> /\ freed[c] = 0
            /\ (pc[c] = "done" => ret[c] = -22)

\* C12 witness: arp_send returned for a hardware-address length that is
\* not the device's, all other parameters being acceptable
C12_Witness ==
    \E c \in Ctx :
        /\ op[c] = "send" /\ pc[c] = "done"
        /\ bargs[c].haddr_len = ETH_ALEN - 4 /\ dev.addr_len = ETH_ALEN
        /\ bargs[c].paddr_len = IN_ADDR_LEN
        /\ bargs[c].source_paddr # NULL /\ bargs[c].dest_paddr # NULL
        /\ bargs[c].devp = "dev" /\ ~dev.noarp
        /\ ret[c] = -22 /\ calls[c] = <<>>

\* C13: once the parameters are accepted, a failed allocation returns
\* -ENOMEM with nothing built, released or sent; a failed build releases the
\* buffer once, sends nothing and returns the build's code; a successful
\* build hands the buffer to the gateway once, unreleased, and returns the
\* gateway's result.
C13_SendOutcomes ==
    \A c \in Ctx :
        (op[c] = "send" /\ ~SendMismatch(bargs[c], dev)) =>
            /\ pc[c] # "abort"
            /\ freed[c] + Xmits(c) <= 1
            /\ (calls[c] # <<>> => calls[c][1].fn = "skb_alloc")
            /\ (pc[c] = "done" =>
                  /\ calls[c] # <<>>
                  /\ IF calls[c][1].ret # 0
                     THEN /\ ret[c] = -12
                          /\ CallNames(c) = <<"skb_alloc">>
                          /\ skb[c] = NoSkb
                          /\ freed[c] = 0 /\ txq = <<>>
                     ELSE IF calls[c][2].ret # 0
                     THEN /\ CallNames(c) =
                                <<"skb_alloc", "create_hdr", "skb_free">>
                          /\ freed[c] = 1 /\ txq = <<>>
                          /\ ret[c] = calls[c][2].ret
                     ELSE /\ CallNames(c) =
                                <<"skb_alloc", "create_hdr", "dev_xmit_skb">>
                          /\ freed[c] = 0 /\ Xmits(c) = 1 /\ Len(txq) = 1
                          /\ ret[c] = calls[c][3].ret)

\* C13 witness: arp_send returned the build's failure after releasing the
\* buffer it had allocated
C13_Witness ==
    \E c \in Ctx :
        /\ op[c] = "send" /\ pc[c] = "done"
        /\ CallNames(c) = <<"skb_alloc", "create_hdr", "skb_free">>
        /\ ret[c] # 0 /\ freed[c] = 1

\* context c is an arp_send of a REQUEST whose header arp_build has written
BuiltRequest(c) ==
    /\ op[c] = "send" /\ bargs[c].oper = ARP_OPER_REQUEST
    /\ ~SendMismatch(bargs[c], dev)
    /\ Len(calls[c]) >= 2 /\ calls[c][2].fn = "create_hdr"
    /\ calls[c][2].ret = 0

\* C14: parsing the header arp_build wrote for a REQUEST gives back the four
\* addresses byte for byte, the device's own hardware address for an omitted
\* sender hardware address and H zero bytes for an omitted target hardware
\* address; the fixed fields read back as the device's type, the given
\* protocol space, H, P and the operation code.
C14_RoundTrip ==
    \A c \in Ctx :
        BuiltRequest(c) =>
            LET a == bargs[c]
                h == skb[c]
            IN  /\ Sha(h) = (IF a.source_haddr = <<-1>>
                             THEN SubSeq(dev.dev_addr, 1, a.haddr_len)
                             ELSE a.source_haddr)
                /\ Spa(h) = a.source_paddr
                /\ Tha(h) = (IF a.dest_haddr = <<-1>>
                             THEN [i \in 1..a.haddr_len |-> 0]
                             ELSE a.dest_haddr)
                /\ Tpa(h) = a.dest_paddr
                /\ Len(Sha(h)) = a.haddr_len /\ Len(Tpa(h)) = a.paddr_len
                /\ ntohs(h.ha_space) = dev.type
                /\ ntohs(h.pa_space) = a.paddr_space
                /\ h.ha_len = a.haddr_len /\ h.pa_len = a.paddr_len
                /\ ntohs(h.oper) = a.oper

\* C14 witness: a REQUEST built with both hardware addresses omitted into a
\* buffer the allocator had left nonzero, on a little-endian build
C14_Witness ==
    \E c \in Ctx :
        /\ BuiltRequest(c) /\ pc[c] = "done" /\ Xmits(c) = 1
        /\ bargs[c].source_haddr = NULL /\ bargs[c].dest_haddr = NULL
        /\ ~bigEndian
        /\ skb[c].h_dest = Fill(ETH_ALEN, 255)
        /\ Tha(skb[c]) = Fill(dev.addr_len, 0)

\* the layout st of a header of lengths hl and pl holding n bytes of
\* variable portion
LayoutOk(st, hl, pl, n) ==
    /\ n = 2 * (hl + pl)
    /\ st.sha = 0
    /\ st.spa = st.sha + hl
    /\ st.tha = st.spa + pl
    /\ st.tpa = st.tha + hl
    /\ st.tpa + pl = n
    /\ st.sha <= st.spa /\ st.spa <= st.tha /\ st.tha <= st.tpa

\* C15: the header's total size is the fixed portion plus 2*(H+P), and the
\* four fields lie in the order sender-hw, sender-proto, target-hw,
\* target-proto, each starting where the previous one ends and the last one
\* ending at the end of the header; so it is for the buffer arp_send
\* allocates and arp_build fills, and for the layout arp_process computes of
\* a received header.
C15_Layout ==
    \A c \in Ctx :
        /\ (op[c] = "send" /\ skb[c] # NoSkb) =>
              LET hl == bargs[c].haddr_len
                  pl == bargs[c].paddr_len
              IN  /\ skb[c].len - ETH_HEADER_SIZE = ARPG_FIXED_SIZE + 2 * (hl + pl)
                  /\ Len(calls[c]) >= 2 /\ calls[c][2].ret = 0 =>
                        /\ LayoutOk(arpg_make_stuff(skb[c]), hl, pl,
                                    Len(skb[c].data))
                        /\ ETH_HEADER_SIZE + ARPG_HEADER_SIZE(skb[c])
                               = skb[c].len
        /\ (op[c] = "rcv" /\ arps[c] # NoStuff) =>
              /\ LayoutOk(arps[c], skb0[c].ha_len, skb0[c].pa_len,
                          ARPG_HEADER_SIZE(skb0[c]) - ARPG_FIXED_SIZE)
              /\ ETH_HEADER_SIZE + ARPG_FIXED_SIZE + arps[c].tpa
                     + skb0[c].pa_len <= skb0[c].len

\* C15 witness: arp_send transmitted a header whose hardware addresses are
\* shorter than its protocol addresses
C15_Witness ==
    \E c \in Ctx :
        /\ op[c] = "send" /\ pc[c] = "done" /\ Xmits(c) = 1
        /\ bargs[c].haddr_len = ETH_ALEN - 4
        /\ bargs[c].paddr_len = IN_ADDR_LEN + 1
        /\ Sent(c).len = ETH_HEADER_SIZE + ARPG_FIXED_SIZE + 14
        /\ arpg_make_stuff(Sent(c)).tpa = 9

\* the sender/target address fields of a header
AddressFields == {"sha", "spa", "tha", "tpa"}

\* C16: arp_process evaluates the size check before the hardware check,
\* before the opcode branch and before any address field is located or
\* read: while a packet's declared header size exceeds its received length,
\* nothing but the two declared lengths is ever read of it; the opcode is
\* read only of a packet that passed the size and the hardware checks.
C16_SizeCheckFirst ==
    \A c \in Ctx :
        op[c] = "rcv" =>
            /\ SizeExceeds(skb0[c]) =>
                  /\ reads[c] \subseteq {"ha_len", "pa_len"}
                  /\ arps[c] = NoStuff
            /\ "ha_space" \in reads[c] => ~SizeExceeds(skb0[c])
            /\ "oper" \in reads[c] =>
                  /\ ~SizeExceeds(skb0[c])
                  /\ ~HwSpaceDiffers(skb0[c], dev)
                  /\ ~HwLenDiffers(skb0[c], dev)
            /\ reads[c] \cap AddressFields # {} =>
                  /\ ~SizeExceeds(skb0[c])
                  /\ "oper" \in reads[c]

\* C16 witness: a truncated REQUEST for the device's own address, of the
\* device's hardware type and length, discarded after its two lengths only
\* were read
C16_Witness ==
    \E c \in Ctx :
        /\ op[c] = "rcv" /\ pc[c] = "done"
        /\ PassesRcv(skb0[c], dev)
        /\ SizeExceeds(skb0[c])
        /\ ~HwSpaceDiffers(skb0[c], dev) /\ ~HwLenDiffers(skb0[c], dev)
        /\ dev.addr_len = ETH_ALEN
        /\ ntohs(skb0[c].oper) = ARP_OPER_REQUEST
        /\ skb0[c].pa_len = IN_ADDR_LEN
        /\ reads[c] = {"ha_len", "pa_len"}
        /\ freed[c] = 1

\* C17: for every validated REPLY, whatever its protocol space, protocol
\* length or target addresses, arp_rcv returns after the cache insert, the
\* drain and the release, in that order and once each, nothing being sent;
\* the drain and the release happen also when the insert failed, and the
\* result is the insert's result.
C17_ReplyUnfiltered ==
    \A c \in Ctx :
        (ValidReply(c) /\ pc[c] = "done") =>
            /\ Len(calls[c]) = 3
            /\ calls[c][1].fn = "neighbour_add"
            /\ calls[c][2].fn = "arp_queue_process"
            /\ calls[c][2].arg = <<Spa(skb0[c])>>
            /\ calls[c][3].fn = "skb_free"
            /\ ret[c] = calls[c][1].ret
            /\ Xmits(c) = 0
            /\ (calls[c][1].ret # 0 =>
                    /\ cache = Cache0 /\ ret[c] # 0
                    /\ drained = <<Spa(skb0[c])>> /\ freed[c] = 1)

\* C17 witness: a REPLY of a non-IPv4 protocol space and length, not
\* addressed to the device, whose insert failed, was drained and released
C17_Witness ==
    \E c \in Ctx :
        /\ ValidReply(c) /\ pc[c] = "done"
        /\ ntohs(skb0[c].pa_space) # ETH_P_IP
        /\ skb0[c].pa_len = IN_ADDR_LEN + 1
        /\ dev.addr_len = ETH_ALEN
        /\ Bytes(Tpa(skb0[c]), 0, IN_ADDR_LEN) # dev.ifa_address
        /\ calls[c][1].ret = -ENOMEM /\ ret[c] = -ENOMEM
        /\ NCalls(c, "arp_queue_process") = 1 /\ freed[c] = 1

\* what arp_rcv has done with context c's packet when it returns, as a
\* function of that packet, the device and the collaborators' results only
OutcomeAlone(c) ==
    IF AnswerableRequest(skb0[c], dev)
    THEN /\ Len(calls[c]) = 2 /\ calls[c][1].fn = "create_hdr"
         /\ IF calls[c][1].ret # 0
            THEN /\ calls[c][2].fn = "skb_free"
                 /\ freed[c] = 1 /\ Xmits(c) = 0
                 /\ ret[c] = calls[c][1].ret
            ELSE /\ calls[c][2].fn = "dev_xmit_skb"
                 /\ freed[c] = 0 /\ Xmits(c) = 1
                 /\ ret[c] = calls[c][2].ret
                 /\ ntohs(Sent(c).oper) = ARP_OPER_REPLY
                 /\ Sha(Sent(c)) = DevHaddr(dev)
                 /\ Spa(Sent(c)) = Tpa(skb0[c])
                 /\ Tha(Sent(c)) = Sha(skb0[c])
                 /\ Tpa(Sent(c)) = Spa(skb0[c])
                 /\ Bytes(Sent(c).h_dest, 0, dev.addr_len) = Sha(skb0[c])
    ELSE IF ValidReply(c)
    THEN /\ CallNames(c) = <<"neighbour_add", "arp_queue_process", "skb_free">>
         /\ calls[c][1].arg = <<Spa(skb0[c]), Sha(skb0[c])>>
         /\ calls[c][2].arg = <<Spa(skb0[c])>>
         /\ freed[c] = 1 /\ Xmits(c) = 0
         /\ ret[c] = calls[c][1].ret
    ELSE /\ CallNames(c) = <<"skb_free">>
         /\ freed[c] = 1 /\ Xmits(c) = 0
         /\ ret[c] = 0

\* context c's neighbour_add succeeded
Merged(c) ==
    /\ calls[c] # <<>>
    /\ calls[c][1].fn = "neighbour_add" /\ calls[c][1].ret = 0

\* C18: with receives running on one or on two contexts at once, each on
\* its own buffer and interleaved in any way, every buffer is released or
\* sent at most once and exactly once when its arp_rcv returns; what was
\* done with each packet is what is done with it alone; the gateway, the
\* queue and the cache hold what the contexts gave them and nothing else.
C18_ConcurrentReceives ==
    /\ \A c \in Ctx :
          op[c] = "rcv" =>
              /\ pc[c] # "abort"
              /\ freed[c] + Xmits(c) <= 1
              /\ (pc[c] = "done" =>
                      freed[c] + Xmits(c) = 1 /\ OutcomeAlone(c))
    /\ \A i \in DOMAIN txq : op[txq[i].ctx] = "rcv"
    /\ Len(drained) =
          Cardinality({c \in Ctx : NCalls(c, "arp_queue_process") = 1})
    /\ \A e \in cache :
          \/ e \in Cache0
          \/ \E c \in Ctx :
                Merged(c) /\ calls[c][1].arg = <<e.paddr, e.haddr>>
    /\ \A c \in Ctx :
          Merged(c) =>
              \E e \in cache : e.paddr = Spa(skb0[c]) /\ e.dev = dev.name

\* C18 witness: while context 1 holds the reply it built to sender 1's
\* request and has not yet sent it, context 2 has merged sender 2's reply
\* into the cache and drained the queue, and has not yet released its buffer
C18_Witness ==
    /\ op[1] = "rcv" /\ op[2] = "rcv"
    /\ pc[1] = "arp_xmit" /\ pc[2] = "arp_hnd_reply_free"
    /\ Sha(skb0[1]) = HwAddr(ETH_ALEN, 1)
    /\ Sha(skb0[2]) = HwAddr(ETH_ALEN, 2)
    /\ Tha(skb[1]) = HwAddr(ETH_ALEN, 1)
    /\ Merged(2)
    /\ CacheMaps(PrAddr(IN_ADDR_LEN, 2), HwAddr(ETH_ALEN, 2), dev.name)
    /\ drained = <<PrAddr(IN_ADDR_LEN, 2)>>

\* C19: the cache is changed and the queue drained only while a validated
\* REPLY is handled: a context that called neighbour_add or
\* arp_queue_process is handling one, and while no context is, the cache and
\* the queue are as they were; so no REQUEST, answered or not, and no call
\* of arp_send or arp_resolve leaves the requester's or any other pair in
\* the cache.
C19_OnlyReplyLearns ==
    /\ \A c \in Ctx :
          (NCalls(c, "neighbour_add") > 0
              \/ NCalls(c, "arp_queue_process") > 0) => ValidReply(c)
    /\ (\A c \in Ctx : ~ValidReply(c)) =>
          /\ cache = Cache0 /\ drained = <<>>
          /\ \A c \in Ctx :
                (op[c] = "rcv" /\ Spa(skb0[c]) # PrAddr(IN_ADDR_LEN, 1)) =>
                    \A e \in cache : e.paddr # Spa(skb0[c])

\* C19 witness: a REQUEST of sender 2, unknown to the cache, was answered
\* with a transmitted reply
C19_Witness ==
    \E c \in Ctx :
        /\ op[c] = "rcv" /\ pc[c] = "done"
        /\ AnswerableRequest(skb0[c], dev) /\ Xmits(c) = 1
        /\ Spa(skb0[c]) = PrAddr(IN_ADDR_LEN, 2)
        /\ cache = Cache0

\* the preconditions arp_build asserts, on its parameters a and the device
BuildPreconditions(a, d) ==
    /\ a.haddr_len > 0 /\ a.paddr_len > 0
    /\ a.source_paddr # <<-1>> /\ a.dest_paddr # <<-1>>
    /\ a.devp # "NULL"
    /\ a.haddr_len = d.addr_len

\* C20 as stated: every call of arp_build, from arp_rcv or from arp_send,
\* satisfies the preconditions arp_build asserts, for every inbound packet
\* and every device, one of address length 0 included; and the addresses
\* arp_hnd_request copies into its temporaries never exceed their capacity.
C20_BuildPreconditions ==
    \A c \in Ctx :
        /\ pc[c] = "arp_build" => BuildPreconditions(bargs[c], dev)
        /\ op[c] = "rcv" =>
              /\ Len(tmp[c].src_paddr) <= MAX_ADDR_LEN
              /\ Len(tmp[c].dst_haddr) <= MAX_ADDR_LEN
              /\ Len(tmp[c].dst_paddr) <= MAX_ADDR_LEN

====
